---------------------------- MODULE Spec2Model ----------------------------
(***************************************************************************)
(* A model of packages/docs/link_checker.py: the LinkChecker that scans    *)
(* the .mdx files of a documentation tree, classifies and checks their     *)
(* links and rewrites broken internal links to the closest indexed path.   *)
(*                                                                         *)
(* Python strings are sequences of one-character strings, so that prefix   *)
(* tests, regular-expression matches, str.replace and the similarity ratio *)
(* are computed on the characters.  None is the empty sequence where the   *)
(* code only ever tests the value's truth.                                 *)
(***************************************************************************)
EXTENDS Integers, Sequences, FiniteSets, TLC

---------------------------------------------------------------------------
(* Characters and str methods *)

DQ == "\""
SQ == "'"

None == << >>

\* s.startswith(p)
StartsWith(s, p) == Len(s) >= Len(p) /\ SubSeq(s, 1, Len(p)) = p

\* True when p occurs in s at (1-based) position i
OccursAt(s, p, i) == i >= 1 /\ i + Len(p) - 1 <= Len(s) /\ SubSeq(s, i, i + Len(p) - 1) = p

\* The first position >= from at which some character of cs stands, 0 if none
FirstOf(s, cs, from) ==
    IF \E i \in from..Len(s) : s[i] \in cs
    THEN CHOOSE i \in from..Len(s) : s[i] \in cs /\ \A k \in from..(i - 1) : s[k] \notin cs
    ELSE 0

\* The last position at which character c stands, 0 if none
LastOf(s, c) ==
    IF \E i \in 1..Len(s) : s[i] = c
    THEN CHOOSE i \in 1..Len(s) : s[i] = c /\ \A k \in (i + 1)..Len(s) : s[k] # c
    ELSE 0

\* s[i:] for a 1-based i
Drop(s, i) == SubSeq(s, i, Len(s))

\* s.replace(old, new) for a non-empty old: every non-overlapping occurrence,
\* leftmost first, in one pass (the replacement text is not rescanned)
RECURSIVE ReplaceFrom(_, _, _, _)
ReplaceFrom(s, old, new, i) ==
    IF i > Len(s) THEN << >>
    ELSE IF OccursAt(s, old, i)
         THEN new \o ReplaceFrom(s, old, new, i + Len(old))
         ELSE << s[i] >> \o ReplaceFrom(s, old, new, i + 1)

Replace(s, old, new) == ReplaceFrom(s, old, new, 1)

\* s.split("#")[0]
BeforeHash(s) ==
    LET h == FirstOf(s, {"#"}, 1) IN IF h = 0 THEN s ELSE SubSeq(s, 1, h - 1)

\* str.lower() on ASCII
UpperCase ==
    <<"A", "B", "C", "D", "E", "F", "G", "H", "I", "J", "K", "L", "M",
       "N", "O", "P", "Q", "R", "S", "T", "U", "V", "W", "X", "Y", "Z" >>
LowerCase ==
    <<"a", "b", "c", "d", "e", "f", "g", "h", "i", "j", "k", "l", "m",
       "n", "o", "p", "q", "r", "s", "t", "u", "v", "w", "x", "y", "z" >>

LowerChar(c) ==
    IF \E i \in 1..Len(UpperCase) : UpperCase[i] = c
    THEN LowerCase[CHOOSE i \in 1..Len(UpperCase) : UpperCase[i] = c]
    ELSE c

Lower(s) == [i \in 1..Len(s) |-> LowerChar(s[i])]

---------------------------------------------------------------------------
(* difflib.SequenceMatcher(None, a, b).ratio(), for strings under 200      *)
(* characters (no junk, no popular-element heuristic)                      *)

\* Length of the common run of a from offset i and b from offset j (0-based),
\* inside a[:ahi] and b[:bhi]
RECURSIVE RunLen(_, _, _, _, _, _)
RunLen(a, b, i, j, ahi, bhi) ==
    IF i < ahi /\ j < bhi /\ a[i + 1] = b[j + 1]
    THEN 1 + RunLen(a, b, i + 1, j + 1, ahi, bhi)
    ELSE 0

\* find_longest_match(alo, ahi, blo, bhi): <<i, j, k>> with k maximal, then i
\* minimal, then j minimal; <<alo, blo, 0>> when nothing matches
FindLongestMatch(a, b, alo, ahi, blo, bhi) ==
    LET P == (alo..(ahi - 1)) \X (blo..(bhi - 1))
        K(p) == RunLen(a, b, p[1], p[2], ahi, bhi)
    IN  IF \A p \in P : K(p) = 0 THEN << alo, blo, 0 >>
        ELSE LET best == CHOOSE p \in P :
                            /\ K(p) > 0
                            /\ \A q \in P :
                                  \/ K(q) < K(p)
                                  \/ K(q) = K(p) /\ q[1] > p[1]
                                  \/ K(q) = K(p) /\ q[1] = p[1] /\ q[2] >= p[2]
             IN  << best[1], best[2], K(best) >>

\* Sum of the sizes of get_matching_blocks(): the longest match, then the
\* same to its left and to its right
RECURSIVE MatchingSize(_, _, _, _, _, _)
MatchingSize(a, b, alo, ahi, blo, bhi) ==
    LET m == FindLongestMatch(a, b, alo, ahi, blo, bhi)
        i == m[1]
        j == m[2]
        k == m[3]
    IN  IF k = 0 THEN 0
        ELSE k
             + (IF alo < i /\ blo < j THEN MatchingSize(a, b, alo, i, blo, j) ELSE 0)
             + (IF i + k < ahi /\ j + k < bhi
                THEN MatchingSize(a, b, i + k, ahi, j + k, bhi) ELSE 0)

\* ratio() as the fraction <<numerator, denominator>>: 2.0 * matches / length,
\* and 1.0 when both strings are empty
Ratio(a, b) ==
    IF Len(a) + Len(b) = 0 THEN << 1, 1 >>
    ELSE << 2 * MatchingSize(a, b, 0, Len(a), 0, Len(b)), Len(a) + Len(b) >>

\* r > num/den and r1 > r2 on fractions with positive denominators
RatioAbove(r, num, den) == r[1] * den > num * r[2]
RatioGreater(r1, r2) == r1[1] * r2[2] > r2[1] * r1[2]

---------------------------------------------------------------------------
(* LinkChecker: the pure parts of its methods *)

HTTP == << "h", "t", "t", "p", ":", "/", "/" >>
HTTPS == << "h", "t", "t", "p", "s", ":", "/", "/" >>
DotMdx == << ".", "m", "d", "x" >>

\* build_file_list: one record per file of the tree, in rglob's order.  A file
\* is named by its position in the tree; relative_path is its path under the
\* docs directory
build_file_list(files) ==
    [i \in 1..Len(files) |->
        [file_path |-> i,
         url_path |-> << "/" >> \o Replace(files[i].name, DotMdx, << >>),
         relative_path |-> files[i].name]]

\* A classification that knows "./" but not "../"
classify_link_no_parent(url) ==
    IF StartsWith(url, << "#" >>) THEN "anchor"
    ELSE IF StartsWith(url, HTTP) \/ StartsWith(url, HTTPS) THEN "external"
    ELSE IF StartsWith(url, << "/" >>) THEN "internal_absolute"
    ELSE IF StartsWith(url, << ".", "/" >>) THEN "internal_relative"
    ELSE "unknown"

classify_link(url) ==
    IF StartsWith(url, << "#" >>) THEN "anchor"
    ELSE IF StartsWith(url, HTTP) \/ StartsWith(url, HTTPS) THEN "external"
    ELSE IF StartsWith(url, << "/" >>) THEN "internal_absolute"
    ELSE IF StartsWith(url, << ".", "/" >>) \/ StartsWith(url, << ".", ".", "/" >>)
         THEN "internal_relative"
    ELSE "unknown"

\* 0.85 in check_internal_link and 0.9 in check_file_links, in hundredths
SimilarityThreshold == 85
ConfidenceThreshold == 90
Hundred == 100

\* candidates.sort(key=lambda x: x[1], reverse=True): list.sort is stable, also
\* when reversed, so equal ratios keep the order of the file list
RECURSIVE InsertDesc(_, _)
InsertDesc(sorted, x) ==
    IF sorted = << >> THEN << x >>
    ELSE IF RatioGreater(x[2], Head(sorted)[2]) THEN << x >> \o sorted
    ELSE << Head(sorted) >> \o InsertDesc(Tail(sorted), x)

RECURSIVE SortDesc(_)
SortDesc(c) ==
    IF c = << >> THEN << >>
    ELSE InsertDesc(SortDesc(SubSeq(c, 1, Len(c) - 1)), c[Len(c)])

\* The candidates of check_internal_link: <<url_path, similarity>> of every
\* indexed path whose ratio to file_path is above the threshold, in index order
Candidates(file_path, fl) ==
    LET all == [i \in 1..Len(fl) |-> << fl[i].url_path, Ratio(file_path, fl[i].url_path) >>]
    IN  SelectSeq(all, LAMBDA c : RatioAbove(c[2], SimilarityThreshold, Hundred))

\* The first candidate, the list left unsorted
FirstCandidate(candidates) == candidates[1][1]

BestMatch(candidates) == SortDesc(candidates)[1][1]

check_internal_link(url, fl) ==
    LET file_path == BeforeHash(url)
        candidates == Candidates(file_path, fl)
    IN  IF \E i \in 1..Len(fl) : fl[i].url_path = file_path
        THEN [valid |-> TRUE, suggestion |-> None]
        ELSE IF candidates # << >>
             THEN [valid |-> FALSE, suggestion |-> BestMatch(candidates)]
             ELSE [valid |-> FALSE, suggestion |-> None]

\* urlparse(url).hostname for an http:// or https:// URL: the netloc runs from
\* after "//" to the first of "/", "?", "#"; urlsplit raises ValueError when
\* the netloc holds one bracket without the other; the host is what follows
\* the last "@", up to the first ":", lowercased, and None when it is empty.
\* (A host between brackets is an IP literal; the URLs of the model have none.)
Netloc(url) ==
    LET rest == Drop(url, FirstOf(url, {":"}, 1) + 3)
        delim == FirstOf(rest, {"/", "?", "#"}, 1)
    IN  IF delim = 0 THEN rest ELSE SubSeq(rest, 1, delim - 1)

Has(s, c) == \E i \in 1..Len(s) : s[i] = c

UrlparseRaises(url) ==
    LET n == Netloc(url) IN Has(n, "[") # Has(n, "]")

Hostname(url) ==
    LET n == Netloc(url)
        hostinfo == Drop(n, LastOf(n, "@") + 1)
        colon == FirstOf(hostinfo, {":"}, 1)
        host == IF colon = 0 THEN hostinfo ELSE SubSeq(hostinfo, 1, colon - 1)
    IN  IF host = << >> THEN None ELSE Lower(host)

skip_domains ==
    { << "l", "o", "c", "a", "l", "h", "o", "s", "t" >>,
      << "1", "2", "7", ".", "0", ".", "0", ".", "1" >>,
      << "e", "x", "a", "m", "p", "l", "e", ".", "c", "o", "m" >>,
      << "t", "e", "s", "t", ".", "c", "o", "m" >>,
      << "p", "l", "a", "c", "e", "h", "o", "l", "d", "e", "r", ".", "c", "o", "m" >> }

\* The status code from which a response makes the link invalid
ErrorStatus == 400

\* What requests.head can do: answer with a status code, or raise
NoError == [kind |-> "none", code |-> 0]
ProbeResult(outcome) ==
    IF outcome.raises THEN [valid |-> FALSE, error |-> [kind |-> "exception", code |-> 0]]
    ELSE IF outcome.status_code < ErrorStatus THEN [valid |-> TRUE, error |-> NoError]
    ELSE [valid |-> FALSE, error |-> [kind |-> "HTTP", code |-> outcome.status_code]]

InCache(cache, url) == url \in DOMAIN cache

\* A check_external_link that caches what a probe found only when the link is
\* valid
check_external_link_caching_valid(url, cache, outcome) ==
    IF InCache(cache, url)
    THEN [raised |-> FALSE, ret |-> cache[url], cache |-> cache, probed |-> FALSE]
    ELSE IF UrlparseRaises(url)
    THEN [raised |-> TRUE, ret |-> [valid |-> FALSE, error |-> NoError],
          cache |-> cache, probed |-> FALSE]
    ELSE IF Hostname(url) \in skip_domains
    THEN [raised |-> FALSE, ret |-> [valid |-> TRUE, error |-> NoError],
          cache |-> (url :> [valid |-> TRUE, error |-> NoError]) @@ cache,
          probed |-> FALSE]
    ELSE [raised |-> FALSE, ret |-> ProbeResult(outcome),
          cache |-> IF ProbeResult(outcome).valid
                    THEN (url :> ProbeResult(outcome)) @@ cache
                    ELSE cache,
          probed |-> TRUE]

\* check_external_link(url) on the cache, with the outcome the network would
\* give a probe made now: what it returns (or that it raised), the cache after
\* it and whether it sent the probe
check_external_link(url, cache, outcome) ==
    IF InCache(cache, url)
    THEN [raised |-> FALSE, ret |-> cache[url], cache |-> cache, probed |-> FALSE]
    ELSE IF UrlparseRaises(url)
    THEN [raised |-> TRUE, ret |-> [valid |-> FALSE, error |-> NoError],
          cache |-> cache, probed |-> FALSE]
    ELSE IF Hostname(url) \in skip_domains
    THEN [raised |-> FALSE, ret |-> [valid |-> TRUE, error |-> NoError],
          cache |-> (url :> [valid |-> TRUE, error |-> NoError]) @@ cache,
          probed |-> FALSE]
    ELSE [raised |-> FALSE, ret |-> ProbeResult(outcome),
          cache |-> (url :> ProbeResult(outcome)) @@ cache,
          probed |-> TRUE]

---------------------------------------------------------------------------
(* extract_links: re.finditer of the three patterns over the content *)

Href == << "h", "r", "e", "f", "=" >>
Src == << "s", "r", "c", "=" >>
Quotes == {DQ, SQ}

\* \[([^\]]*)\]\(([^)]+)\) tried at position i: the text runs to the first
\* "]", which "(" must follow, and the URL (one character at least) runs to
\* the first ")".  end is the position of the last character matched, 0 when
\* the pattern does not match at i
MarkdownAt(s, i) ==
    LET j == FirstOf(s, {"]"}, i + 1)
        k == IF j = 0 THEN 0 ELSE FirstOf(s, {")"}, j + 2)
    IN  IF s[i] = "[" /\ j # 0 /\ j + 1 <= Len(s) /\ s[j + 1] = "(" /\ k >= j + 3
        THEN [end |-> k, text |-> SubSeq(s, i + 1, j - 1), url |-> SubSeq(s, j + 2, k - 1)]
        ELSE [end |-> 0, text |-> << >>, url |-> << >>]

\* href=["\']([^"\']+)["\'] (or src=...) tried at position i: either quote
\* opens, the URL (one character at least) runs to the first quote of either
\* kind, which closes
AttributeAt(s, attr, i) ==
    LET q == i + Len(attr)
        e == FirstOf(s, Quotes, q + 1)
    IN  IF OccursAt(s, attr, i) /\ q <= Len(s) /\ s[q] \in Quotes /\ e >= q + 2
        THEN [end |-> e, text |-> << >>, url |-> SubSeq(s, q + 1, e - 1)]
        ELSE [end |-> 0, text |-> << >>, url |-> << >>]

MatchAt(s, type, i) ==
    IF type = "markdown" THEN MarkdownAt(s, i)
    ELSE IF type = "href" THEN AttributeAt(s, Href, i)
    ELSE AttributeAt(s, Src, i)

\* re.finditer: the leftmost match from i on, then on from its end
RECURSIVE FindIter(_, _, _)
FindIter(s, type, i) ==
    IF i > Len(s) THEN << >>
    ELSE LET m == MatchAt(s, type, i)
         IN  IF m.end # 0
             THEN << [text |-> m.text, url |-> m.url, type |-> type,
                      start |-> i - 1, end |-> m.end,
                      full_match |-> SubSeq(s, i, m.end)] >>
                  \o FindIter(s, type, m.end + 1)
             ELSE FindIter(s, type, i + 1)

extract_links(content) ==
    FindIter(content, "markdown", 1) \o FindIter(content, "href", 1)
        \o FindIter(content, "src", 1)

---------------------------------------------------------------------------
(* check_file_links: what its loop does with one link *)

\* result["confidence"] of an internal link that got a suggestion
Confidence(url, suggestion) ==
    IF RatioAbove(Ratio(url, suggestion), ConfidenceThreshold, Hundred)
    THEN "high" ELSE "medium"

\* One iteration of the loop over the links of file_path: the result record
\* appended (with the key "error" for an external link only), the cache after
\* it, whether a probe was sent and whether check_external_link raised
CheckLink(file_path, link, fl, cache, outcome) ==
    LET url == link.url
        link_type == classify_link(url)
        result == [file |-> file_path, link |-> link, link_type |-> link_type,
                   valid |-> TRUE, suggestion |-> None, confidence |-> "high"]
    IN  IF link_type = "internal_absolute"
        THEN LET r == check_internal_link(url, fl)
             IN  [raised |-> FALSE, probed |-> FALSE, cache |-> cache,
                  result |-> [result EXCEPT
                      !.valid = r.valid,
                      !.suggestion = r.suggestion,
                      !.confidence = IF r.suggestion # None
                                     THEN Confidence(url, r.suggestion)
                                     ELSE "high"]]
        ELSE IF link_type = "external"
        THEN LET c == check_external_link(url, cache, outcome)
             IN  [raised |-> c.raised, probed |-> c.probed, cache |-> c.cache,
                  result |-> [error |-> c.ret.error] @@
                             [result EXCEPT
                                 !.valid = c.ret.valid,
                                 !.confidence = IF c.ret.valid THEN "high" ELSE "low"]]
        ELSE [raised |-> FALSE, probed |-> FALSE, cache |-> cache, result |-> result]

\* "error" in link_result
HasError(link_result) == "error" \in DOMAIN link_result

---------------------------------------------------------------------------
(* apply_fix *)

\* A substitution that also rewrites src attributes
SubstitutionWithSrc(link, new_url) ==
    IF link.type = "markdown"
    THEN [defined |-> TRUE,
          old |-> << "[" >> \o link.text \o << "]", "(" >> \o link.url \o << ")" >>,
          new |-> << "[" >> \o link.text \o << "]", "(" >> \o new_url \o << ")" >>]
    ELSE [defined |-> TRUE,
          old |-> (IF link.type = "href" THEN Href ELSE Src)
                      \o << DQ >> \o link.url \o << DQ >>,
          new |-> (IF link.type = "href" THEN Href ELSE Src)
                      \o << DQ >> \o new_url \o << DQ >>]

\* The substitution of apply_fix on the content read: the token it looks for,
\* the token it puts, and that a src link has no substitution
Substitution(link, new_url) ==
    IF link.type = "markdown"
    THEN [defined |-> TRUE,
          old |-> << "[" >> \o link.text \o << "]", "(" >> \o link.url \o << ")" >>,
          new |-> << "[" >> \o link.text \o << "]", "(" >> \o new_url \o << ")" >>]
    ELSE IF link.type = "href"
    THEN [defined |-> TRUE,
          old |-> Href \o << DQ >> \o link.url \o << DQ >>,
          new |-> Href \o << DQ >> \o new_url \o << DQ >>]
    ELSE [defined |-> FALSE, old |-> << >>, new |-> << >>]

\* apply_fix(file_path, link_result) on the files and the fix list, when the
\* file system answers io ("ok", or the read or the write fails): what it
\* returns, the files and the fix list after it
apply_fix(files, fixes, file_path, link_result, io) ==
    LET unchanged == [ret |-> FALSE, files |-> files, fixes |-> fixes]
        content == files[file_path].content
        sub == Substitution(link_result.link, link_result.suggestion)
        new_content == Replace(content, sub.old, sub.new)
    IN  IF link_result.valid \/ link_result.suggestion = None THEN unchanged
        ELSE IF io = "read_error" THEN unchanged
        ELSE IF ~sub.defined THEN unchanged
        ELSE IF new_content = content THEN unchanged
        ELSE IF io = "write_error" THEN unchanged
        ELSE [ret |-> TRUE,
              files |-> [files EXCEPT ![file_path].content = new_content],
              fixes |-> Append(fixes,
                          [file |-> file_path,
                           old_url |-> link_result.link.url,
                           new_url |-> link_result.suggestion,
                           confidence |-> link_result.confidence,
                           type |-> link_result.link_type])]

\* remaining_broken of generate_report
RemainingBroken(broken, fixes) ==
    SelectSeq(broken, LAMBDA link :
        ~\E i \in 1..Len(fixes) :
            fixes[i].old_url = link.link.url /\ fixes[i].file = link.file)

---------------------------------------------------------------------------
(* The documentation trees of the model *)

\* abc.mdx: a markdown link and a src link to the same missing page
FileAbc ==
    [name |-> << "a", "b", "c", ".", "m", "d", "x" >>,
     content |->
       << "[", "t", "]", "(", "/", "a", "b", ")", "s", "r", "c", "=", DQ,
          "/", "a", "b", DQ >>]

\* abd.mdx: a single-quoted href to a missing page, a link to an existing one
FileAbd ==
    [name |-> << "a", "b", "d", ".", "m", "d", "x" >>,
     content |->
       << "h", "r", "e", "f", "=", SQ, "/", "a", "b", SQ, "[", "t", "]", "(",
          "/", "a", "b", "d", ")" >>]

\* ab).mdx: the same markdown link twice and a double-quoted href
FileAbParen ==
    [name |-> << "a", "b", ")", ".", "m", "d", "x" >>,
     content |->
       << "[", "t", "]", "(", "/", "a", "b", ")", "[", "t", "]", "(", "/",
          "a", "b", ")", "h", "r", "e", "f", "=", DQ, "/", "a", "b", DQ >>]

\* a.mdx: external links: one URL twice and a skipped host
FileA ==
    [name |-> << "a", ".", "m", "d", "x" >>,
     content |->
       << "[", "t", "]", "(", "h", "t", "t", "p", ":", "/", "/", "a", ".",
          "b", ")", "[", "u", "]", "(", "h", "t", "t", "p", ":", "/", "/",
          "a", ".", "b", ")", "[", "t", "]", "(", "h", "t", "t", "p", ":",
          "/", "/", "l", "o", "c", "a", "l", "h", "o", "s", "t", "/", "x",
          ")" >>]

\* a.mdx.mdx: an anchor, a relative, an unknown and an unmatched internal link
FileAMdx ==
    [name |-> << "a", ".", "m", "d", "x", ".", "m", "d", "x" >>,
     content |->
       << "[", "t", "]", "(", "#", "s", ")", "[", "t", "]", "(", ".", "/",
          "r", ")", "[", "t", "]", "(", "z", "z", ")", "[", "t", "]", "(",
          "/", "z", "z", "#", "s", ")" >>]

\* b.mdx: an external link whose netloc urlsplit rejects
FileB ==
    [name |-> << "b", ".", "m", "d", "x" >>,
     content |->
       << "[", "t", "]", "(", "h", "t", "t", "p", ":", "/", "/", "[", ")" >>]

FilePool == { FileAbc, FileAbd, FileAbParen, FileA, FileAMdx, FileB }

\* The most files a tree holds
MaxFiles == 2

\* The .mdx files under the docs directory, in the order rglob lists them:
\* distinct paths, at least one file
Trees ==
    { t \in UNION { [1..n -> FilePool] : n \in 1..MaxFiles } :
        \A i, j \in 1..Len(t) : i # j => t[i].name # t[j].name }

\* What a HEAD request can come to: a status code, or an exception
Statuses == { 200, 399, 400 }
Outcomes ==
    { [raises |-> FALSE, status_code |-> c] : c \in Statuses }
        \cup { [raises |-> TRUE, status_code |-> 0] }

\* What the file system can do to apply_fix
IOModes == { "ok", "read_error", "write_error" }

---------------------------------------------------------------------------
(* State *)

VARIABLES
    disk,            \* the .mdx files of the docs directory: name and content
    file_list,       \* self.file_list
    fixes_applied,   \* self.fixes_applied
    broken_links,    \* self.broken_links
    external_cache,  \* self.external_cache
    pc,              \* where main() stands
    results,         \* check_all_links: the results dictionary
    fidx,            \* check_all_links: the position of file_path in mdx_files
    links,           \* check_file_links: the links extracted from the file
    file_results,    \* check_file_links: results, then check_all_links: file_results
    lidx,            \* check_all_links: the position of link_result in file_results
    file_broken,     \* check_all_links: file_broken
    file_fixed,      \* check_all_links: file_fixed
    report,          \* generate_report: remaining_broken
    net,             \* the URLs requests.head was sent, in order
    call,            \* the last call of classify_link, check_internal_link or apply_fix
    history,         \* the calls a client made of one method, in order
    extracted,       \* how many links extract_links has returned in the run
    unread,          \* the positions in mdx_files of the files whose read failed
    rewrote          \* for each entry of broken_links, what apply_fix returned for it

self_vars == << disk, file_list, fixes_applied, broken_links, external_cache >>
run_vars == << pc, results, fidx, links, file_results, lidx, file_broken, file_fixed,
               report, extracted, unread, rewrote >>
vars == << self_vars, run_vars, net, call, history >>

EmptyCache == [u \in {} |-> [valid |-> TRUE, error |-> NoError]]
NoCall == [op |-> "none"]
ReadError == [error |-> [kind |-> "read", code |-> 0]]

NewResults ==
    [total_files |-> 0, total_links |-> 0, broken_links |-> 0, fixed_links |-> 0,
     files_modified |-> 0, detailed_results |-> << >>]

\* LinkChecker(): the object __init__ leaves over the tree
Constructed(tree) ==
    /\ disk = tree
    /\ file_list = build_file_list(tree)
    /\ fixes_applied = << >>
    /\ broken_links = << >>
    /\ external_cache = EmptyCache

\* Nothing of a run yet
NoRun ==
    /\ results = NewResults
    /\ fidx = 0
    /\ links = << >>
    /\ file_results = << >>
    /\ lidx = 0
    /\ file_broken = 0
    /\ file_fixed = 0
    /\ report = << >>
    /\ extracted = 0
    /\ unread = {}
    /\ rewrote = << >>
    /\ net = << >>
    /\ call = NoCall
    /\ history = << >>

---------------------------------------------------------------------------
(* main(): check_all_links, then generate_report *)

Init ==
    /\ \E tree \in Trees : Constructed(tree)
    /\ NoRun
    /\ pc = "main"

\* check_all_links up to its loop: the results dictionary and the file list
CheckAllLinksBegin ==
    /\ pc = "main"
    /\ results' = [NewResults EXCEPT !.total_files = Len(disk)]
    /\ fidx' = 1
    /\ pc' = "open"
    /\ UNCHANGED << self_vars, links, file_results, lidx, file_broken, file_fixed,
                    report, extracted, unread, rewrote, net, call, history >>

\* A read failure that is not caught: the exception ends the run
ReadFailedRaises ==
    /\ links' = << >>
    /\ file_results' = << >>
    /\ pc' = "aborted"

\* check_file_links when open() or read() raises: the one error entry
ReadFailed ==
    /\ links' = << >>
    /\ file_results' = << ReadError >>
    /\ pc' = "process"

\* check_file_links(file_path) up to its loop: the file is read and its links
\* extracted, or the read fails
OpenFile ==
    /\ pc = "open"
    /\ \E readable \in BOOLEAN :
          LET found == extract_links(disk[fidx].content)
          IN  IF readable
              THEN /\ links' = found
                   /\ file_results' = << >>
                   /\ pc' = IF found = << >> THEN "process" ELSE "check"
                   /\ extracted' = extracted + Len(found)
                   /\ unread' = unread
              ELSE /\ ReadFailed
                   /\ extracted' = extracted
                   /\ unread' = unread \cup {fidx}
    /\ lidx' = 1
    /\ file_broken' = 0
    /\ file_fixed' = 0
    /\ UNCHANGED << self_vars, results, fidx, report, rewrote, net, call, history >>

\* One iteration of the loop of check_file_links; after the last link the
\* results go back to check_all_links.  A ValueError of urlparse is caught
\* nowhere and ends the process
CheckNextLink ==
    /\ pc = "check"
    /\ \E outcome \in Outcomes :
          LET link == links[Len(file_results) + 1]
              c == CheckLink(fidx, link, file_list, external_cache, outcome)
          IN  IF c.raised
              THEN /\ pc' = "aborted"
                   /\ UNCHANGED << file_results, external_cache, net >>
              ELSE /\ file_results' = Append(file_results, c.result)
                   /\ external_cache' = c.cache
                   /\ net' = IF c.probed THEN Append(net, link.url) ELSE net
                   /\ pc' = IF Len(file_results) + 1 = Len(links) THEN "process" ELSE "check"
    /\ UNCHANGED << disk, file_list, fixes_applied, broken_links, results, fidx, links,
                    lidx, file_broken, file_fixed, report, extracted, unread, rewrote,
                    call, history >>

\* One iteration of the loop of check_all_links over file_results
ProcessResult ==
    /\ pc = "process"
    /\ lidx <= Len(file_results)
    /\ \E io \in IOModes :
          LET link_result == file_results[lidx]
              counted == ~HasError(link_result)
              broken == counted /\ ~link_result.valid
              tried == /\ broken
                       /\ link_result.confidence \in {"high", "medium"}
                       /\ link_result.suggestion # None
              fix == IF tried
                     THEN apply_fix(disk, fixes_applied, fidx, link_result, io)
                     ELSE [ret |-> FALSE, files |-> disk, fixes |-> fixes_applied]
          IN  /\ results' = [results EXCEPT
                    !.total_links = IF counted THEN @ + 1 ELSE @,
                    !.broken_links = IF broken THEN @ + 1 ELSE @,
                    !.fixed_links = IF fix.ret THEN @ + 1 ELSE @]
              /\ file_broken' = IF broken THEN file_broken + 1 ELSE file_broken
              /\ file_fixed' = IF fix.ret THEN file_fixed + 1 ELSE file_fixed
              /\ broken_links' = IF broken THEN Append(broken_links, link_result)
                                 ELSE broken_links
              /\ rewrote' = IF broken THEN Append(rewrote, fix.ret) ELSE rewrote
              /\ disk' = fix.files
              /\ fixes_applied' = fix.fixes
              /\ call' = IF tried
                         THEN [op |-> "apply_fix", file_path |-> fidx,
                               link_result |-> link_result, io |-> io, ret |-> fix.ret,
                               before |-> disk[fidx].content,
                               after |-> fix.files[fidx].content]
                         ELSE NoCall
    /\ lidx' = lidx + 1
    /\ UNCHANGED << file_list, external_cache, pc, fidx, links, file_results, report,
                    extracted, unread, net, history >>

\* The end of the loop body over the files: files_modified, detailed_results
FinishFile ==
    /\ pc = "process"
    /\ lidx > Len(file_results)
    /\ results' = [results EXCEPT
          !.files_modified = IF file_fixed > 0 THEN @ + 1 ELSE @,
          !.detailed_results = Append(@, [file |-> fidx, results |-> file_results,
                                          broken_count |-> file_broken,
                                          fixed_count |-> file_fixed])]
    /\ fidx' = fidx + 1
    /\ pc' = IF fidx = Len(disk) THEN "done" ELSE "open"
    /\ UNCHANGED << self_vars, links, file_results, lidx, file_broken, file_fixed,
                    report, extracted, unread, rewrote, net, call, history >>

\* generate_report(results): the links listed under Remaining Broken Links
GenerateReport ==
    /\ pc = "done"
    /\ report' = RemainingBroken(broken_links, fixes_applied)
    /\ pc' = "reported"
    /\ UNCHANGED << self_vars, results, fidx, links, file_results, lidx, file_broken,
                    file_fixed, extracted, unread, rewrote, net, call, history >>

Next ==
    \/ CheckAllLinksBegin
    \/ OpenFile
    \/ CheckNextLink
    \/ ProcessResult
    \/ FinishFile
    \/ GenerateReport

Spec == Init /\ [][Next]_vars

---------------------------------------------------------------------------
(* Properties of a run *)

Finished == pc \in {"done", "reported"}

\* The entries of detailed_results that are results of links
IsLinkResult(r) == "valid" \in DOMAIN r
LinkResults ==
    { << f, k >> \in (1..Len(results.detailed_results)) \X (1..extracted) :
        /\ k <= Len(results.detailed_results[f].results)
        /\ IsLinkResult(results.detailed_results[f].results[k]) }
InvalidResults ==
    { p \in LinkResults : ~results.detailed_results[p[1]].results[p[2]].valid }

\* C2: when check_all_links completes, total_links is the number of links
\* extracted from the files that could be read, and the broken_links counter and
\* the length of the broken-link list are the number of those links whose
\* result is invalid, external links included
C2_CountersMatchLinks ==
    Finished =>
        /\ results.total_links = extracted
        /\ results.broken_links = Cardinality(InvalidResults)
        /\ Len(broken_links) = Cardinality(InvalidResults)

\* C5: the report's Remaining Broken Links holds every link recorded as broken
\* for which apply_fix did not return True
C5_UnfixedAreReported ==
    pc = "reported" =>
        \A i \in 1..Len(broken_links) :
            ~rewrote[i] => \E k \in 1..Len(report) : report[k] = broken_links[i]

\* The current file could not be read
ReadFailedHere == pc \in {"process", "aborted"} /\ fidx \in unread

\* C6: a file whose read fails yields exactly one error entry, adds nothing to
\* total_links, broken_links or fixed_links and is not modified; the run goes
\* on to the remaining files and ends with one detailed_results entry per file
\* and total_files the number of files
C6_State ==
    /\ ReadFailedHere => pc = "process" /\ file_results = << ReadError >>
    /\ \A f \in unread :
          f <= Len(results.detailed_results) =>
              /\ results.detailed_results[f].results = << ReadError >>
              /\ results.detailed_results[f].broken_count = 0
              /\ results.detailed_results[f].fixed_count = 0
    /\ Finished =>
          /\ Len(results.detailed_results) = Len(disk)
          /\ results.total_files = Len(disk)
          /\ \A f \in 1..Len(disk) : results.detailed_results[f].file = f

C6_Step ==
    /\ \A f \in unread' : disk'[f] = disk[f]
    /\ ReadFailedHere =>
          /\ results'.total_links = results.total_links
          /\ results'.broken_links = results.broken_links
          /\ results'.fixed_links = results.fixed_links
          /\ broken_links' = broken_links
          /\ fixes_applied' = fixes_applied
          /\ pc' \in {"process", "open", "done"}
          /\ pc' = "open" => fidx' = fidx + 1 /\ fidx' <= Len(disk)

C6_NoStopOnReadError == [] C6_State /\ [][C6_Step]_vars

\* A run that ended after a file could not be read and a later file's links
\* were checked
C6_Witness ==
    /\ pc = "done"
    /\ \E f \in unread :
          /\ f < Len(disk)
          /\ f + 1 \notin unread
          /\ Len(results.detailed_results[f + 1].results) > 0

\* The result check_all_links is about to handle is a broken src link with a
\* suggestion
BrokenSrcNext ==
    /\ pc = "process"
    /\ lidx <= Len(file_results)
    /\ IsLinkResult(file_results[lidx])
    /\ file_results[lidx].link.type = "src"
    /\ ~file_results[lidx].valid
    /\ file_results[lidx].suggestion # None

\* C8: for a broken src link with a suggestion, apply_fix returns False,
\* leaves the files as they are and appends no Fix, and the run still counts
\* and records the link as broken
C8_SrcNeverFixed ==
    [][BrokenSrcNext =>
        /\ call'.op = "apply_fix"
        /\ call'.link_result = file_results[lidx]
        /\ call'.ret = FALSE
        /\ disk' = disk
        /\ fixes_applied' = fixes_applied
        /\ results'.fixed_links = results.fixed_links
        /\ results'.broken_links = results.broken_links + 1
        /\ results'.total_links = results.total_links + 1
        /\ broken_links' = Append(broken_links, file_results[lidx])]_vars

\* apply_fix was called, with a working file system, for a broken src link
\* that has a suggestion, and the link is recorded
C8_Witness ==
    /\ call.op = "apply_fix"
    /\ call.io = "ok"
    /\ call.link_result.link.type = "src"
    /\ call.link_result.suggestion # None
    /\ broken_links # << >>
    /\ broken_links[Len(broken_links)] = call.link_result

\* The token of a link with another URL in it
WithUrl(link, url) ==
    IF link.type = "markdown"
    THEN << "[" >> \o link.text \o << "]", "(" >> \o url \o << ")" >>
    ELSE SubSeq(link.full_match, 1, Len(link.full_match) - Len(link.url) - 1)
             \o url \o << link.full_match[Len(link.full_match)] >>

\* C9: for a markdown or href link that is invalid with a suggestion, apply_fix
\* replaces the link's full_match by the same token with the suggested URL, so
\* a link that stands in the file is rewritten and a Fix is recorded
C9_FullMatchIsRewritten ==
    (/\ call.op = "apply_fix"
     /\ call.io = "ok"
     /\ call.link_result.link.type \in {"markdown", "href"})
    => LET link == call.link_result.link
           present == \E i \in 1..Len(call.before) : OccursAt(call.before, link.full_match, i)
       IN  /\ call.after = Replace(call.before, link.full_match,
                                   WithUrl(link, call.link_result.suggestion))
           /\ present => call.ret = TRUE

\* C10: no two records of the file index have the same URL path
C10_UrlPathsUnique ==
    \A i, j \in 1..Len(file_list) :
        i # j => file_list[i].url_path # file_list[j].url_path

---------------------------------------------------------------------------
(* A client calling classify_link and check_internal_link *)

\* The longest URL and the largest index the client tries
MaxUrlLen == 4
MaxIndex == 2

UrlChars == { "/", "#", "a", "b" }
ShortUrls == UNION { [1..n -> UrlChars] : n \in 0..MaxUrlLen }
Prefixes ==
    { HTTP, HTTPS,
      << "h", "t", "t", "p", ":", "/" >>,
      << "h", "t", "t", "p", "s", ":", "/" >>,
      << "H", "t", "t", "p", ":", "/", "/" >>,
      << "f", "t", "p", ":", "/", "/" >>,
      << ".", "/" >>,
      << ".", ".", "/" >>,
      << "." >>,
      << ".", "." >>,
      << ".", "a", "/" >>,
      << "h" >> }
Suffixes == { << >>, << "a" >>, << "/" >>, << "#" >> }
UrlPool == ShortUrls \cup { p \o x : p \in Prefixes, x \in Suffixes }

NamePool ==
    { << "a", "b", ".", "m", "d", "x" >>,
      << "a", "b", "b", ".", "m", "d", "x" >>,
      << "a", "b", "a", ".", "m", "d", "x" >>,
      << "a", "b", "a", "b", ".", "m", "d", "x" >>,
      << "a", "#", ".", "m", "d", "x" >> }
IndexTrees ==
    { t \in UNION { [1..n -> [name : NamePool, content : {<< >>}]] : n \in 0..MaxIndex } :
        \A i, j \in 1..Len(t) : i # j => t[i].name # t[j].name }

InitResolve ==
    /\ \E tree \in IndexTrees : Constructed(tree)
    /\ NoRun
    /\ pc = "client"

\* The client makes one call
ClassifyCall ==
    /\ pc = "client"
    /\ call = NoCall
    /\ \E url \in UrlPool :
          call' = [op |-> "classify_link", url |-> url, ret |-> classify_link(url)]
    /\ UNCHANGED << self_vars, run_vars, net, history >>

\* check_internal_link is called for internal absolute URLs
ResolveCall ==
    /\ pc = "client"
    /\ call = NoCall
    /\ \E url \in UrlPool :
          /\ classify_link(url) = "internal_absolute"
          /\ call' = [op |-> "check_internal_link", url |-> url,
                      ret |-> check_internal_link(url, file_list)]
    /\ UNCHANGED << self_vars, run_vars, net, history >>

NextResolve == ClassifyCall \/ ResolveCall

SpecResolve == InitResolve /\ [][NextResolve]_vars

\* p is a prefix of s, character by character
IsPrefix(p, s) == Len(p) <= Len(s) /\ \A i \in 1..Len(p) : s[i] = p[i]

\* The part of url before its first "#": its longest prefix without one
UpToHash(url) ==
    LET n == CHOOSE n \in 0..Len(url) :
                /\ \A i \in 1..n : url[i] # "#"
                /\ n < Len(url) => url[n + 1] = "#"
    IN  [i \in 1..n |-> url[i]]

\* The positions of the index whose path has a ratio to p above 0.85, and
\* among them the earliest of those with the highest ratio
Similar(p) ==
    { i \in 1..Len(file_list) :
        RatioAbove(Ratio(p, file_list[i].url_path), SimilarityThreshold, Hundred) }
Closest(p) ==
    CHOOSE i \in Similar(p) :
        \A j \in Similar(p) :
            LET ri == Ratio(p, file_list[i].url_path)
                rj == Ratio(p, file_list[j].url_path)
            IN  RatioGreater(ri, rj) \/ (~RatioGreater(rj, ri) /\ i <= j)

\* C1: check_internal_link(url) is valid without a suggestion exactly when an
\* indexed path equals url up to its first "#"; otherwise it is invalid and
\* suggests the indexed path of highest ratio among those above 0.85, the
\* earliest of them in index order, and nothing when no path is above 0.85
C1_InternalResolution ==
    call.op = "check_internal_link" =>
        LET p == UpToHash(call.url)
            exact == \E i \in 1..Len(file_list) : file_list[i].url_path = p
        IN  /\ call.ret.valid = exact
            /\ exact => call.ret.suggestion = None
            /\ ~exact /\ Similar(p) = {} => call.ret.suggestion = None
            /\ ~exact /\ Similar(p) # {} =>
                   call.ret.suggestion = file_list[Closest(p)].url_path

\* A URL with a fragment was resolved against an index with two paths above
\* the threshold at the same ratio, and the earlier one was suggested
C1_Witness ==
    /\ call.op = "check_internal_link"
    /\ Has(call.url, "#")
    /\ ~call.ret.valid
    /\ Similar(UpToHash(call.url)) = {1, 2}
    /\ Ratio(UpToHash(call.url), file_list[1].url_path)
           = Ratio(UpToHash(call.url), file_list[2].url_path)
    /\ file_list[1].url_path # file_list[2].url_path
    /\ call.ret.suggestion = file_list[1].url_path

Categories == { "anchor", "external", "internal_absolute", "internal_relative", "unknown" }

\* C7: classify_link returns exactly one category, decided by the URL's prefix
\* in the order "#", "http://" or "https://", "/", "./" or "../", and unknown
\* for every other string
C7_ClassifyByPrefix ==
    call.op = "classify_link" =>
        LET u == call.url
            anchor == IsPrefix(<< "#" >>, u)
            external == ~anchor /\ (IsPrefix(HTTP, u) \/ IsPrefix(HTTPS, u))
            absolute == ~anchor /\ ~external /\ IsPrefix(<< "/" >>, u)
            relative == /\ ~anchor /\ ~external /\ ~absolute
                        /\ (IsPrefix(<< ".", "/" >>, u) \/ IsPrefix(<< ".", ".", "/" >>, u))
        IN  /\ call.ret \in Categories
            /\ (call.ret = "anchor") = anchor
            /\ (call.ret = "external") = external
            /\ (call.ret = "internal_absolute") = absolute
            /\ (call.ret = "internal_relative") = relative
            /\ (call.ret = "unknown") = (~anchor /\ ~external /\ ~absolute /\ ~relative)

\* A URL that starts with "../" was classified
C7_Witness ==
    /\ call.op = "classify_link"
    /\ IsPrefix(<< ".", ".", "/" >>, call.url)
    /\ call.ret = "internal_relative"

---------------------------------------------------------------------------
(* A client calling check_external_link *)

UrlAB == << "h", "t", "t", "p", ":", "/", "/", "a", ".", "b" >>
UrlABX == << "h", "t", "t", "p", "s", ":", "/", "/", "a", ".", "b", "/", "x" >>
UrlLocalhostX ==
    << "h", "t", "t", "p", ":", "/", "/", "l", "o", "c", "a", "l", "h", "o", "s", "t", "/", "x" >>
UrlLocalhostUpper ==
    << "h", "t", "t", "p", ":", "/", "/", "u", "@", "L", "O", "C", "A", "L", "H", "O", "S", "T", ":", "8", "0" >>
UrlTestCom ==
    << "h", "t", "t", "p", "s", ":", "/", "/", "t", "e", "s", "t", ".", "c", "o", "m", "#", "f" >>
UrlLocalhostx ==
    << "h", "t", "t", "p", ":", "/", "/", "l", "o", "c", "a", "l", "h", "o", "s", "t", "x" >>
UrlBracket == << "h", "t", "t", "p", ":", "/", "/", "[" >>
ExternalUrls ==
    { UrlAB, UrlABX, UrlLocalhostX, UrlLocalhostUpper,
      UrlTestCom, UrlLocalhostx, UrlBracket }

\* The most calls the client makes
MaxCalls == 3

InitProbe ==
    /\ Constructed(<< FileA >>)
    /\ NoRun
    /\ pc = "client"

CheckExternalLinkCall ==
    /\ pc = "client"
    /\ Len(history) < MaxCalls
    /\ \E url \in ExternalUrls, outcome \in Outcomes :
          LET c == check_external_link(url, external_cache, outcome)
          IN  /\ classify_link(url) = "external"
              /\ external_cache' = c.cache
              /\ net' = IF c.probed THEN Append(net, url) ELSE net
              /\ history' = Append(history,
                    [url |-> url, cached |-> InCache(external_cache, url),
                     raised |-> c.raised, ret |-> c.ret, probed |-> c.probed])
    /\ UNCHANGED << disk, file_list, fixes_applied, broken_links, run_vars, call >>

NextProbe == CheckExternalLinkCall

SpecProbe == InitProbe /\ [][NextProbe]_vars

\* The calls that sent a probe, in order
RECURSIVE Probed(_)
Probed(h) ==
    IF h = << >> THEN << >>
    ELSE (IF Head(h).probed THEN << Head(h).url >> ELSE << >>) \o Probed(Tail(h))

\* C4: a probe is sent only for a URL that is not in the cache and whose host
\* is not skipped, so a URL is probed at most once, a later check of a URL
\* returns what its first check returned, and a URL of a skipped host is valid
\* without a probe
C4_ProbeOncePerUrl ==
    /\ net = Probed(history)
    /\ \A k \in 1..Len(history) :
          LET h == history[k]
          IN  /\ h.probed => ~h.cached /\ Hostname(h.url) \notin skip_domains
              /\ Cardinality({ j \in 1..Len(net) : net[j] = h.url }) <= 1
              /\ \A j \in 1..(k - 1) :
                    history[j].url = h.url /\ ~history[j].raised
                        => ~h.raised /\ h.ret = history[j].ret
              /\ Hostname(h.url) \in skip_domains /\ ~h.raised
                    => h.ret.valid /\ ~h.probed
              /\ h.url = UrlLocalhostX => ~h.raised /\ h.ret.valid /\ ~h.probed

\* A URL was probed and found invalid, checked again from the cache, and
\* http://localhost/x was checked
C4_Witness ==
    /\ Len(history) >= 3
    /\ history[1].url = history[2].url
    /\ history[1].probed
    /\ ~history[1].ret.valid
    /\ history[2].cached
    /\ ~history[2].probed
    /\ history[3].url = UrlLocalhostX

---------------------------------------------------------------------------
(* A client calling apply_fix again with the same arguments *)

\* The most calls of apply_fix with the same arguments
MaxRepeats == 2

InitFix ==
    /\ \E tree \in Trees : Constructed(tree)
    /\ NoRun
    /\ pc = "client"

\* What one call of apply_fix(file_path, link_result) does, and its record
ApplyFixCall(file_path, link_result, io) ==
    LET fix == apply_fix(disk, fixes_applied, file_path, link_result, io)
    IN  /\ disk' = fix.files
        /\ fixes_applied' = fix.fixes
        /\ history' = Append(history,
              [file_path |-> file_path, link_result |-> link_result, io |-> io,
               ret |-> fix.ret,
               before |-> disk[file_path].content,
               after |-> fix.files[file_path].content,
               appended |-> Len(fix.fixes) - Len(fixes_applied)])
        /\ UNCHANGED << file_list, broken_links, external_cache, run_vars, net, call >>

\* The first call: a result of check_file_links on a file of the tree that is
\* invalid and has a suggestion
ApplyFixFirst ==
    /\ pc = "client"
    /\ history = << >>
    /\ \E f \in 1..Len(disk), io \in IOModes, outcome \in Outcomes :
          \E k \in 1..Len(extract_links(disk[f].content)) :
              LET c == CheckLink(f, extract_links(disk[f].content)[k], file_list,
                                 external_cache, outcome)
              IN  /\ ~c.raised
                  /\ ~c.result.valid
                  /\ c.result.suggestion # None
                  /\ ApplyFixCall(f, c.result, io)

ApplyFixAgain ==
    /\ pc = "client"
    /\ history # << >>
    /\ Len(history) < MaxRepeats
    /\ \E io \in IOModes :
          ApplyFixCall(history[1].file_path, history[1].link_result, io)

NextFix == ApplyFixFirst \/ ApplyFixAgain

SpecFix == InitFix /\ [][NextFix]_vars

\* C3: of two calls of apply_fix in succession with the same file and link
\* result, when the first returns True the second returns False, leaves the
\* content as the first left it and appends no Fix; and a call appends a Fix
\* only when the content it wrote differs from the content it read
C3_FixIsIdempotent ==
    \A k \in 1..Len(history) :
        /\ history[k].appended > 0 => history[k].after # history[k].before
        /\ k > 1 /\ history[k - 1].ret =>
              /\ ~history[k].ret
              /\ history[k].after = history[k - 1].after
              /\ history[k].appended = 0

===========================================================================
